---- MODULE Spec2Model ----
(***************************************************************************)
(* Model of src/backend.js: an Express application with three routes       *)
(*   POST /api/send-email        (throttled, relays to the vendor SDK)     *)
(*   GET  /api/health                                                      *)
(*   POST /api/sendgrid-webhook                                            *)
(* behind the global middleware chain cors -> express.json().              *)
(*                                                                         *)
(* JavaScript values are records tagged by t.  Text (a JS string, a raw    *)
(* request body) is a sequence of tokens; a string literal inside JSON     *)
(* text is one token that carries the text between its quotes, so that     *)
(* toString() followed by JSON.parse() is computed, not assumed.           *)
(***************************************************************************)
EXTENDS Integers, Sequences, FiniteSets, TLC

(***************************************************************************)
(* Tokens and text                                                         *)
(***************************************************************************)
T(k) == [k |-> k, c |-> <<>>, n |-> 0]
NumTok(n) == [k |-> "num", c |-> <<>>, n |-> n]
Lit(content) == [k |-> "str", c |-> content, n |-> 0]

(***************************************************************************)
(* JavaScript values                                                       *)
(***************************************************************************)
Undefined == [t |-> "undefined"]
Null == [t |-> "null"]
Bool(b) == [t |-> "bool", b |-> b]
Num(n) == [t |-> "num", n |-> n]
Str(s) == [t |-> "str", s |-> s]
Arr(items) == [t |-> "arr", items |-> items]
Obj(members) == [t |-> "obj", members |-> members]
Buffer(bytes) == [t |-> "buffer", bytes |-> bytes]

\* a string constant of the program, kept as one token
S(word) == Str(<<T(word)>>)
\* the key of an object member
K(name) == <<T(name)>>
M(name, val) == [key |-> K(name), val |-> val]

\* !v
Falsy(v) ==
    \/ v.t \in {"undefined", "null"}
    \/ v.t = "bool" /\ ~v.b
    \/ v.t = "num" /\ v.n = 0
    \/ v.t = "str" /\ v.s = <<>>

\* reading a property of undefined or null throws a TypeError
CanRead(v) == v.t \notin {"undefined", "null"}

HasOwn(v, name) ==
    /\ v.t = "obj"
    /\ \E i \in 1..Len(v.members) : v.members[i].key = K(name)

\* v[name] for a readable v; the last member of that name wins
Prop(v, name) ==
    IF HasOwn(v, name)
    THEN LET i == CHOOSE j \in 1..Len(v.members) :
                     /\ v.members[j].key = K(name)
                     /\ \A l \in (j+1)..Len(v.members) : v.members[l].key # K(name)
         IN v.members[i].val
    ELSE Undefined

\* v[0] for a readable v
Index0(v) ==
    IF v.t = "arr"
    THEN IF Len(v.items) > 0 THEN v.items[1] ELSE Undefined
    ELSE IF v.t = "str"
    THEN IF Len(v.s) > 0 THEN Str(<<v.s[1]>>) ELSE Undefined
    ELSE Prop(v, "0")

(***************************************************************************)
(* JSON.parse: a recursive-descent parse of JSON text.  A result is        *)
(* [ok, v, next]; next is the position after the value.                    *)
(***************************************************************************)
ParseFail == [ok |-> FALSE, v |-> Undefined, next |-> 0]
ParseOk(v, next) == [ok |-> TRUE, v |-> v, next |-> next]

RECURSIVE ParseValue(_, _), ParseElements(_, _, _), ParseMembers(_, _, _)

ParseValue(txt, i) ==
    IF i > Len(txt) THEN ParseFail
    ELSE LET tok == txt[i] IN
         CASE tok.k = "null"  -> ParseOk(Null, i + 1)
           [] tok.k = "true"  -> ParseOk(Bool(TRUE), i + 1)
           [] tok.k = "false" -> ParseOk(Bool(FALSE), i + 1)
           [] tok.k = "num"   -> ParseOk(Num(tok.n), i + 1)
           [] tok.k = "str"   -> ParseOk(Str(tok.c), i + 1)
           [] tok.k = "["     ->
                IF i + 1 <= Len(txt) /\ txt[i + 1].k = "]"
                THEN ParseOk(Arr(<<>>), i + 2)
                ELSE ParseElements(txt, i + 1, <<>>)
           [] tok.k = "{"     ->
                IF i + 1 <= Len(txt) /\ txt[i + 1].k = "}"
                THEN ParseOk(Obj(<<>>), i + 2)
                ELSE ParseMembers(txt, i + 1, <<>>)
           [] OTHER -> ParseFail

\* value ("," value)* "]"
ParseElements(txt, i, acc) ==
    LET r == ParseValue(txt, i) IN
    IF ~r.ok \/ r.next > Len(txt) THEN ParseFail
    ELSE IF txt[r.next].k = "," THEN ParseElements(txt, r.next + 1, Append(acc, r.v))
    ELSE IF txt[r.next].k = "]" THEN ParseOk(Arr(Append(acc, r.v)), r.next + 1)
    ELSE ParseFail

\* string ":" value ("," string ":" value)* "}"
ParseMembers(txt, i, acc) ==
    IF i + 1 > Len(txt) \/ txt[i].k # "str" \/ txt[i + 1].k # ":" THEN ParseFail
    ELSE LET r == ParseValue(txt, i + 2)
             m == [key |-> txt[i].c, val |-> r.v]
         IN
         IF ~r.ok \/ r.next > Len(txt) THEN ParseFail
         ELSE IF txt[r.next].k = "," THEN ParseMembers(txt, r.next + 1, Append(acc, m))
         ELSE IF txt[r.next].k = "}" THEN ParseOk(Obj(Append(acc, m)), r.next + 1)
         ELSE ParseFail

\* JSON.parse(txt): the whole text must be one value; otherwise a SyntaxError
JSONParse(txt) ==
    LET r == ParseValue(txt, 1) IN
    IF r.ok /\ r.next = Len(txt) + 1 THEN r ELSE ParseFail

(***************************************************************************)
(* String conversion: String(v), Array.prototype.join, and the method      *)
(* call v.toString().                                                      *)
(***************************************************************************)
ObjectObjectText == <<T("["), T("object Object"), T("]")>>

RECURSIVE ToText(_), JoinItems(_, _)

ToText(v) ==
    CASE v.t = "undefined" -> <<T("undefined")>>
      [] v.t = "null"      -> <<T("null")>>
      [] v.t = "bool"      -> IF v.b THEN <<T("true")>> ELSE <<T("false")>>
      [] v.t = "num"       -> <<NumTok(v.n)>>
      [] v.t = "str"       -> v.s
      [] v.t = "buffer"    -> v.bytes
      [] v.t = "arr"       -> JoinItems(v.items, 1)
      [] v.t = "obj"       -> ObjectObjectText

\* items[i..] joined by ","; null and undefined elements give the empty string
JoinItems(items, i) ==
    IF i > Len(items) THEN <<>>
    ELSE LET head == IF CanRead(items[i]) THEN ToText(items[i]) ELSE <<>>
         IN IF i = Len(items) THEN head
            ELSE head \o <<T(",")>> \o JoinItems(items, i + 1)

\* v.toString(): [ok, text].  It throws a TypeError when v is undefined or
\* null, and when v has an own member named toString (a JSON value is never
\* a function).
ToStringCall(v) ==
    IF ~CanRead(v) \/ HasOwn(v, "toString")
    THEN [ok |-> FALSE, text |-> <<>>]
    ELSE [ok |-> TRUE, text |-> ToText(v)]

(***************************************************************************)
(* Program constants                                                       *)
(***************************************************************************)
\* rateLimit({ max: 100, ... })
Max == 100
RateLimitMessage == S("Too many email requests, please try again later.")
MissingFieldsMessage == S("Missing required fields: to, subject, and text/html")
DefaultFromEmail == S("anya.sunglassretailer@gmail.com")
DefaultFromName == S("Anya Ganger")

(***************************************************************************)
(* Bounds of the model                                                     *)
(***************************************************************************)
\* requests counted by the throttle beyond Max within one window
MaxOver == 2
\* fields of a send-email body that are left out or empty
MaxMissing == 2

(***************************************************************************)
(* Responses                                                               *)
(***************************************************************************)
NoResponse == [by |-> "none", status |-> 0, type |-> "none", body |-> Undefined]

RECURSIVE DropUndefined(_)
\* JSON.stringify leaves out the members whose value is undefined
DropUndefined(members) ==
    IF members = <<>> THEN <<>>
    ELSE IF Head(members).val = Undefined THEN DropUndefined(Tail(members))
    ELSE <<Head(members)>> \o DropUndefined(Tail(members))

\* res.status(status).json({members}) called by `by`
ResJson(by, status, members) ==
    [by |-> by, status |-> status, type |-> "json", body |-> Obj(DropUndefined(members))]

\* res.status(status).send(text)
ResSend(by, status, text) ==
    [by |-> by, status |-> status, type |-> "text", body |-> text]

\* Express's default error handler: the error's own status when it is an
\* HTTP error status, else the status already set on the response when that
\* is one, else 500; the body is an error page.
DefaultErrorHandler(errStatus, resStatus) ==
    LET status == IF errStatus \in 400..599 THEN errStatus
                  ELSE IF resStatus \in 400..599 THEN resStatus
                  ELSE 500
    IN [by |-> "errorHandler", status |-> status, type |-> "html", body |-> S("error page")]

(***************************************************************************)
(* Middleware                                                              *)
(***************************************************************************)
JsonType == "application/json"

\* The source names no version of Express.  Where no body parser has parsed
\* a body, req.body is {} with Express 4 and undefined with Express 5.
ExpressVersions == {4, 5}
UnparsedBody(express) == IF express = 4 THEN Obj(<<>>) ELSE Undefined

\* app.use(express.json()): a request with a body of type application/json
\* is parsed in strict mode (the text must start an object or an array); a
\* parse failure goes to the error handler with status 400.
JsonParser(req) ==
    IF req.raw = <<>> \/ req.ctype # JsonType
    THEN [outcome |-> "skip", body |-> Undefined]
    ELSE LET r == JSONParse(req.raw) IN
         IF req.raw[1].k \in {"[", "{"} /\ r.ok
         THEN [outcome |-> "parsed", body |-> r.v]
         ELSE [outcome |-> "error", body |-> Undefined]

\* express.raw({type: 'application/json'}) on the webhook route: skipped when
\* a body was already parsed (req._body), when there is no body, or when the
\* type does not match; else req.body becomes the Buffer of the raw bytes.
RawParser(req, parsed, body) ==
    IF parsed \/ req.raw = <<>> \/ req.ctype # JsonType
    THEN body
    ELSE Buffer(req.raw)

\* app.use(emailRateLimit), the path left out
ThrottledEverywhere(route) == TRUE

\* app.use('/api/send-email', emailRateLimit): the routes the throttle is
\* mounted on
Throttled(route) == route = "send-email"

\* emailRateLimit: the request is counted first and rejected when the count
\* of its source in the current window exceeds max.
RateLimited(count) == count > Max

RateLimitResponse == ResSend("rateLimit", 429, RateLimitMessage)

(***************************************************************************)
(* POST /api/send-email                                                    *)
(***************************************************************************)
\* a || b
Or(a, b) == IF Falsy(a) THEN b ELSE a

\* const { to, ... } = req.body for a readable body
Field(body, name) == Prop(body, name)

\* the check with `=== undefined` in place of `!`
MissingFieldsAbsentOnly(body) ==
    \/ Field(body, "to") = Undefined
    \/ Field(body, "subject") = Undefined
    \/ Field(body, "text") = Undefined /\ Field(body, "html") = Undefined

\* if (!to || !subject || (!text && !html))
MissingFields(body) ==
    \/ Falsy(Field(body, "to"))
    \/ Falsy(Field(body, "subject"))
    \/ Falsy(Field(body, "text")) /\ Falsy(Field(body, "html"))

MissingFieldsResponse ==
    ResJson("handler", 400, <<M("error", MissingFieldsMessage)>>)

\* the sender without the configured default
FromEmailIgnoringEnv(body, e) == Or(Field(body, "fromEmail"), DefaultFromEmail)

FromEmail(body, e) == Or(Or(Field(body, "fromEmail"), e.FROM_EMAIL), DefaultFromEmail)
FromName(body, e) == Or(Or(Field(body, "fromName"), e.FROM_NAME), DefaultFromName)
Html(body) == Or(Field(body, "html"), Field(body, "text"))
TrackingSettings ==
    Obj(<<M("clickTracking", Obj(<<M("enable", Bool(TRUE))>>)),
          M("openTracking", Obj(<<M("enable", Bool(TRUE))>>))>>)

\* const msg = { to, from: {email, name}, subject, text, html, trackingSettings }
BuildMsg(body, e) ==
    Obj(<<M("to", Field(body, "to")),
          M("from", Obj(<<M("email", FromEmail(body, e)),
                          M("name", FromName(body, e))>>)),
          M("subject", Field(body, "subject")),
          M("text", Field(body, "text")),
          M("html", Html(body)),
          M("trackingSettings", TrackingSettings)>>)

TypeErrorMessage == S("TypeError: cannot read properties of undefined")

\* response.headers['x-message-id'], the index left out
MessageIdOfResponse(response) ==
    IF ~CanRead(response) THEN [ok |-> FALSE, v |-> Undefined]
    ELSE IF ~CanRead(Prop(response, "headers")) THEN [ok |-> FALSE, v |-> Undefined]
    ELSE [ok |-> TRUE, v |-> Prop(Prop(response, "headers"), "x-message-id")]

\* response[0].headers['x-message-id']: [ok, v]; a TypeError when response,
\* its first element or that element's headers is undefined or null
MessageId(response) ==
    IF ~CanRead(response) THEN [ok |-> FALSE, v |-> Undefined]
    ELSE IF ~CanRead(Index0(response)) THEN [ok |-> FALSE, v |-> Undefined]
    ELSE IF ~CanRead(Prop(Index0(response), "headers")) THEN [ok |-> FALSE, v |-> Undefined]
    ELSE [ok |-> TRUE, v |-> Prop(Prop(Index0(response), "headers"), "x-message-id")]

SuccessResponse(messageId) ==
    ResJson("handler", 200, <<M("success", Bool(TRUE)),
                              M("messageId", messageId),
                              M("message", S("Email sent successfully"))>>)

\* the else branch of the catch block
ServerErrorResponse(message) ==
    ResJson("handler", 500, <<M("error", S("Server error")), M("details", message)>>)

\* the status without the vendor's code
ErrorStatusAlways500(error) == 500

\* error.code || 500
ErrorStatus(error) ==
    IF Falsy(Prop(error, "code")) THEN 500 ELSE Prop(error, "code").n

\* error.response.body.errors || error.message
ErrorDetails(error) ==
    Or(Prop(Prop(Prop(error, "response"), "body"), "errors"), Prop(error, "message"))

\* catch (error): [escaped, status, res].  With error.response truthy the
\* status is set first and the details are read next; reading .errors of an
\* undefined or null body throws out of the catch block, with the status set
\* and nothing sent.
CatchBlock(error) ==
    IF ~Falsy(Prop(error, "response"))
    THEN IF CanRead(Prop(Prop(error, "response"), "body"))
         THEN [escaped |-> FALSE, status |-> ErrorStatus(error),
               res |-> ResJson("handler", ErrorStatus(error),
                               <<M("error", S("SendGrid API error")),
                                 M("details", ErrorDetails(error))>>)]
         ELSE [escaped |-> TRUE, status |-> ErrorStatus(error), res |-> NoResponse]
    ELSE [escaped |-> FALSE, status |-> 500,
          res |-> ServerErrorResponse(Prop(error, "message"))]

TypeError == Obj(<<M("name", S("TypeError")), M("message", TypeErrorMessage)>>)

(***************************************************************************)
(* POST /api/sendgrid-webhook                                              *)
(***************************************************************************)
\* switch (event.event): the branch taken; every branch is empty
Branch(event) ==
    LET kind == Prop(event, "event") IN
    IF kind = S("delivered") THEN "delivered"
    ELSE IF kind = S("open") THEN "open"
    ELSE IF kind = S("click") THEN "click"
    ELSE IF kind \in {S("bounce"), S("dropped")} THEN "failed"
    ELSE "none"

\* events.forEach(event => ...): [ok, branches].  It throws a TypeError when
\* events is not an array (a parsed JSON value has no callable forEach) and
\* when an element is null (event.email is read first).
ForEachEvent(events) ==
    IF events.t # "arr" \/ \E i \in 1..Len(events.items) : ~CanRead(events.items[i])
    THEN [ok |-> FALSE, branches |-> <<>>]
    ELSE [ok |-> TRUE,
          branches |-> [i \in 1..Len(events.items) |-> Branch(events.items[i])]]

\* the route handler on req.body: [ok, branches]; not ok when
\* req.body.toString(), JSON.parse or forEach throws
WebhookHandler(body) ==
    LET str == ToStringCall(body)
        events == JSONParse(str.text)
    IN IF ~str.ok \/ ~events.ok THEN [ok |-> FALSE, branches |-> <<>>]
       ELSE ForEachEvent(events.v)

WebhookResponse == ResSend("handler", 200, S("OK"))

(***************************************************************************)
(* GET /api/health                                                         *)
(***************************************************************************)
HealthResponse ==
    ResJson("handler", 200, <<M("status", S("OK")), M("message", S("Backend is running"))>>)

(***************************************************************************)
(* Inputs: requests, process configuration, outcomes of the vendor call    *)
(***************************************************************************)
Sources == {"client"}
ContentTypes == {JsonType, "text/plain"}

RECURSIVE MembersText(_, _)
\* the JSON text of members i.. of an object, "," between them
MembersText(members, i) ==
    IF i > Len(members) THEN <<>>
    ELSE <<Lit(K(members[i].name)), T(":")>> \o members[i].text
         \o (IF i < Len(members) THEN <<T(",")>> ELSE <<>>)
         \o MembersText(members, i + 1)
ObjectText(members) == <<T("{")>> \o MembersText(members, 1) \o <<T("}")>>
ArrayOf(text) == <<T("[")>> \o text \o <<T("]")>>

\* a field of a send-email body: left out, the empty string, or a value
FieldChoices == {"absent", "empty", "given"}
FieldNames == <<"to", "subject", "text", "html", "fromEmail", "fromName">>
GivenText(name) ==
    CASE name = "to"        -> K("customer@example.com")
      [] name = "subject"   -> K("Your order")
      [] name = "text"      -> K("plain body")
      [] name = "html"      -> K("<p>html body</p>")
      [] name = "fromEmail" -> K("shop@example.com")
      [] name = "fromName"  -> K("The Shop")
BodyText(choice) ==
    LET present == SelectSeq(FieldNames, LAMBDA f : choice[f] # "absent")
        member(f) == [name |-> f,
                      text |-> <<Lit(IF choice[f] = "empty" THEN <<>> ELSE GivenText(f))>>]
    IN ObjectText([i \in 1..Len(present) |-> member(present[i])])

Garbage == <<T("{"), T("not json")>>

BodyChoices ==
    {c \in [{"to", "subject", "text", "html", "fromEmail", "fromName"} -> FieldChoices] :
        Cardinality({f \in DOMAIN c : c[f] # "given"}) <= MaxMissing}
SendEmailRequests ==
    {[ctype |-> JsonType, raw |-> BodyText(c)] : c \in BodyChoices}
    \cup {[ctype |-> JsonType, raw |-> <<>>],
          [ctype |-> JsonType, raw |-> ObjectText(<<>>)],
          [ctype |-> JsonType, raw |-> Garbage],
          [ctype |-> JsonType, raw |-> ArrayOf(<<>>)],
          [ctype |-> JsonType, raw |-> <<NumTok(1)>>],
          [ctype |-> "text/plain", raw |-> K("to=customer@example.com")]}

EventText(kind) == ObjectText(<<[name |-> "email", text |-> <<Lit(K("customer@example.com"))>>],
                                [name |-> "event", text |-> <<Lit(K(kind))>>]>>)
WebhookBodies ==
    {ArrayOf(EventText(k)) : k \in {"delivered", "open", "click", "bounce", "dropped", "spamreport"}}
    \cup {ArrayOf(EventText("delivered") \o <<T(",")>> \o EventText("click")),
          ArrayOf(<<>>),
          EventText("open"),
          Garbage,
          <<>>,
          <<NumTok(1)>>,
          ArrayOf(<<NumTok(1)>>),
          ArrayOf(<<T("null")>>),
          ArrayOf(<<Lit(ArrayOf(<<>>))>>),
          ArrayOf(<<Lit(ArrayOf(EventText("open")))>>),
          ArrayOf(<<Lit(ArrayOf(EventText("spamreport")))>>),
          ArrayOf(<<Lit(ArrayOf(<<T("null")>>))>>),
          ArrayOf(<<Lit(EventText("open"))>>)}
WebhookRequests == [ctype : ContentTypes, raw : WebhookBodies]

\* process.env.FROM_EMAIL and process.env.FROM_NAME, each set or not
Environments ==
    [FROM_EMAIL : {Undefined, S("ganger@wharton.upenn.edu")},
     FROM_NAME : {Undefined, S("Configured Name")}]

\* what `await sgMail.send(msg)` resolves with
Headers(members) == Obj(<<M("headers", Obj(members))>>)
SendResults ==
    {Arr(<<Headers(<<M("x-message-id", S("msg-1"))>>), Obj(<<>>)>>),
     Arr(<<Headers(<<>>), Obj(<<>>)>>),
     Arr(<<Obj(<<>>)>>),
     Arr(<<>>),
     Undefined}

\* what it rejects with
VendorErrors ==
    LET errors == Arr(<<Obj(<<M("message", S("invalid from")), M("field", S("from.email"))>>)>>)
        err(code, message, response) ==
            Obj(DropUndefined(<<M("code", code), M("message", message), M("response", response)>>))
        body(b) == Obj(<<M("headers", Obj(<<>>)), M("body", b)>>)
    IN {err(Num(401), S("Unauthorized"), body(Obj(<<M("errors", errors)>>))),
        err(Undefined, S("Bad Request"), body(Obj(<<M("errors", errors)>>))),
        err(Num(400), S("Bad Request"), body(Obj(<<M("errors", Arr(<<>>))>>))),
        err(Num(502), S("Bad Gateway"), body(Obj(<<>>))),
        err(Num(503), S("Service Unavailable"), body(Str(<<>>))),
        err(Num(500), S("Internal Server Error"), Obj(<<M("headers", Obj(<<>>))>>)),
        err(Undefined, S("socket hang up"), Undefined),
        err(S("ECONNREFUSED"), S("connect ECONNREFUSED"), Undefined)}

SendOutcomes ==
    {[kind |-> "resolve", val |-> r] : r \in SendResults}
    \cup {[kind |-> "reject", val |-> e] : e \in VendorErrors}
NoOutcome == [kind |-> "none", val |-> Undefined]

(***************************************************************************)
(* State                                                                   *)
(*   hits  the throttle's store: requests counted per source in the        *)
(*         current window                                                  *)
(*   env   process.env, read-only after start                              *)
(*   cur   the exchange being handled: the request, what the middleware    *)
(*         and the handler made of it, and the response; stage is the last *)
(*         of parser, throttle and handler that the request reached        *)
(* The handlers share no state but the throttle's store, so one exchange   *)
(* at a time shows every response the server can give.                     *)
(***************************************************************************)
VARIABLES hits, env, cur
vars == <<hits, env, cur>>

Idle ==
    [pc |-> "idle", route |-> "none", src |-> "none", stage |-> "none",
     req |-> [ctype |-> "none", raw |-> <<>>],
     parsed |-> FALSE, body |-> Undefined, seenHits |-> 0,
     msg |-> Undefined, sendCalls |-> 0, outcome |-> NoOutcome,
     res |-> NoResponse, handlerResponses |-> 0, escaped |-> FALSE,
     branches |-> <<>>]

Init ==
    /\ hits = [s \in Sources |-> 0]
    /\ env \in Environments
    /\ cur = Idle

\* the handler has sent its response
Responded(x, res) == [x EXCEPT !.pc = "done", !.res = res, !.handlerResponses = 1]

\* an exception left the handler with the response status `status` set.  A
\* throw from a synchronous handler, and with Express 5 the rejection of an
\* async handler, goes to the default error handler; with Express 4 the
\* rejection of an async handler is unhandled and nothing is sent.
Escaped(x, status, async) ==
    {[x EXCEPT !.pc = "done", !.escaped = TRUE,
               !.res = IF async /\ express = 4 THEN NoResponse
                       ELSE DefaultErrorHandler(0, status)] : express \in ExpressVersions}

AfterCatch(x, c) ==
    IF c.escaped THEN Escaped(x, c.status, TRUE) ELSE {Responded(x, c.res)}

\* the handler with the `return` before res.status(400) left out: the 400 is
\* sent and the handler goes on to the vendor call
SendEmailHandlerNoReturn(x, e) ==
    IF ~CanRead(x.body) THEN AfterCatch(x, CatchBlock(TypeError))
    ELSE LET y == IF MissingFields(x.body)
                  THEN [x EXCEPT !.res = MissingFieldsResponse, !.handlerResponses = 1]
                  ELSE x
         IN {[y EXCEPT !.pc = "awaiting", !.msg = BuildMsg(x.body, e),
                       !.sendCalls = x.sendCalls + 1]}

\* the send-email handler up to `await sgMail.send(msg)`
SendEmailHandler(x, e) ==
    IF ~CanRead(x.body) THEN AfterCatch(x, CatchBlock(TypeError))
    ELSE IF MissingFields(x.body) THEN {Responded(x, MissingFieldsResponse)}
    ELSE {[x EXCEPT !.pc = "awaiting", !.msg = BuildMsg(x.body, e),
                    !.sendCalls = x.sendCalls + 1]}

\* the send-email handler after the await
SendEmailContinue(x, outcome) ==
    LET y == [x EXCEPT !.outcome = outcome] IN
    IF outcome.kind = "resolve"
    THEN IF MessageId(outcome.val).ok
         THEN {Responded(y, SuccessResponse(MessageId(outcome.val).v))}
         ELSE AfterCatch(y, CatchBlock(TypeError))
    ELSE AfterCatch(y, CatchBlock(outcome.val))

\* the values req.body can have after app.use(express.json()) let the
\* request through
BodiesAfterJson(req) ==
    IF JsonParser(req).outcome = "parsed" THEN {JsonParser(req).body}
    ELSE {UnparsedBody(express) : express \in ExpressVersions}

NoBody == [ctype |-> "none", raw |-> <<>>]

Arrived(route, src, req) ==
    [Idle EXCEPT !.route = route, !.src = src, !.req = req, !.seenHits = hits[src],
                 !.parsed = JsonParser(req).outcome = "parsed"]

ParseErrorResponse == DefaultErrorHandler(400, 200)

\* what the route's handler makes of the request
RouteHandler(x, e) ==
    CASE x.route = "send-email" -> SendEmailHandler(x, e)
      [] x.route = "health"     -> {Responded(x, HealthResponse)}
      [] x.route = "webhook"    ->
            LET y == [x EXCEPT !.body = RawParser(x.req, x.parsed, x.body)]
                h == WebhookHandler(y.body)
            IN IF h.ok THEN {Responded([y EXCEPT !.branches = h.branches], WebhookResponse)}
               ELSE Escaped(y, 200, FALSE)

\* One request through the application: express.json(), then the throttle
\* on the routes it is mounted on, then the route's handler; the result is
\* the set of [hits, cur] the request can leave.  A body the JSON parser
\* rejects is answered by the error handler and goes no further: the
\* throttle does not count it.
Handle(route, src, req) ==
    LET x == Arrived(route, src, req)
        counted == [hits EXCEPT ![src] = hits[src] + 1]
    IN
    IF JsonParser(req).outcome = "error"
    THEN {[hits |-> hits,
           cur |-> [x EXCEPT !.pc = "done", !.stage = "parser", !.res = ParseErrorResponse]]}
    ELSE IF Throttled(route)
    THEN IF hits[src] >= Max + MaxOver THEN {}
         ELSE IF RateLimited(hits[src] + 1)
         THEN {[hits |-> counted,
                cur |-> [x EXCEPT !.pc = "done", !.stage = "throttle", !.body = body,
                                  !.res = RateLimitResponse]] :
                  body \in BodiesAfterJson(req)}
         ELSE UNION {{[hits |-> counted, cur |-> y] :
                        y \in RouteHandler([x EXCEPT !.stage = "handler", !.body = body], env)} :
                     body \in BodiesAfterJson(req)}
    ELSE UNION {{[hits |-> hits, cur |-> y] :
                   y \in RouteHandler([x EXCEPT !.stage = "handler", !.body = body], env)} :
                body \in BodiesAfterJson(req)}

PostSendEmail(src, req) ==
    /\ cur.pc = "idle"
    /\ \E next \in Handle("send-email", src, req) : hits' = next.hits /\ cur' = next.cur
    /\ UNCHANGED env

\* the continuation of the send-email handler when sgMail.send settles
SendSettles(outcome) ==
    /\ cur.pc = "awaiting"
    /\ cur' \in SendEmailContinue(cur, outcome)
    /\ UNCHANGED <<hits, env>>

GetHealth(src) ==
    /\ cur.pc = "idle"
    /\ \E next \in Handle("health", src, NoBody) : hits' = next.hits /\ cur' = next.cur
    /\ UNCHANGED env

PostWebhook(src, req) ==
    /\ cur.pc = "idle"
    /\ \E next \in Handle("webhook", src, req) : hits' = next.hits /\ cur' = next.cur
    /\ UNCHANGED env

\* windowMs has passed: the throttle's store is reset
WindowElapses ==
    /\ cur.pc = "idle"
    /\ \E s \in Sources : hits[s] > 0
    /\ hits' = [s \in Sources |-> 0]
    /\ UNCHANGED <<env, cur>>

\* the exchange is over: its request and response are discarded
ExchangeEnds ==
    /\ cur.pc = "done"
    /\ cur' = Idle
    /\ UNCHANGED <<hits, env>>

Next ==
    \/ \E src \in Sources, req \in SendEmailRequests : PostSendEmail(src, req)
    \/ \E outcome \in SendOutcomes : SendSettles(outcome)
    \/ \E src \in Sources : GetHealth(src)
    \/ \E src \in Sources, req \in WebhookRequests : PostWebhook(src, req)
    \/ WindowElapses
    \/ ExchangeEnds

Spec == Init /\ [][Next]_vars
(***************************************************************************)
(* The claims                                                              *)
(***************************************************************************)
\* a field that is absent or falsy
IsMissing(v) == v \in {Undefined, Null, Bool(FALSE), Num(0), Str(<<>>)}
BodyField(name) == Prop(cur.body, name)
BodyMissingRequired ==
    \/ IsMissing(BodyField("to"))
    \/ IsMissing(BodyField("subject"))
    \/ IsMissing(BodyField("text")) /\ IsMissing(BodyField("html"))

\* a send-email request with a body that got past the throttle
SendEmailPastThrottle ==
    /\ cur.route = "send-email"
    /\ cur.stage \notin {"none", "parser"}
    /\ cur.seenHits < Max
    /\ CanRead(cur.body)

JsonOf(status, members) == [status |-> status, type |-> "json", body |-> Obj(members)]
Sent == [status |-> cur.res.status, type |-> cur.res.type, body |-> cur.res.body]

ExpectedSender(given, configured, builtin) ==
    IF ~IsMissing(given) THEN given ELSE IF ~IsMissing(configured) THEN configured ELSE builtin

\* C2: for a valid send-email request that passes the throttle the vendor
\* send is invoked exactly once, with the sender taken from the request,
\* else from the configuration, else the built-in default, with html
\* defaulted to text, and with click and open tracking enabled.
C2_SendPayload ==
    (SendEmailPastThrottle /\ ~BodyMissingRequired)
    => /\ cur.sendCalls = 1
       /\ Prop(cur.msg, "to") = BodyField("to")
       /\ Prop(cur.msg, "subject") = BodyField("subject")
       /\ Prop(cur.msg, "text") = BodyField("text")
       /\ Prop(Prop(cur.msg, "from"), "email")
            = ExpectedSender(BodyField("fromEmail"), env.FROM_EMAIL,
                             S("anya.sunglassretailer@gmail.com"))
       /\ Prop(Prop(cur.msg, "from"), "name")
            = ExpectedSender(BodyField("fromName"), env.FROM_NAME, S("Anya Ganger"))
       /\ Prop(cur.msg, "html")
            = IF ~IsMissing(BodyField("html")) THEN BodyField("html") ELSE BodyField("text")
       /\ Prop(Prop(Prop(cur.msg, "trackingSettings"), "clickTracking"), "enable") = Bool(TRUE)
       /\ Prop(Prop(Prop(cur.msg, "trackingSettings"), "openTracking"), "enable") = Bool(TRUE)

C2_Witness ==
    /\ SendEmailPastThrottle /\ ~BodyMissingRequired
    /\ cur.pc = "awaiting"
    /\ BodyField("fromEmail") = Undefined /\ BodyField("html") = Undefined
    /\ env.FROM_EMAIL = S("ganger@wharton.upenn.edu") /\ env.FROM_NAME = Undefined
    /\ Prop(Prop(cur.msg, "from"), "email") = S("ganger@wharton.upenn.edu")
    /\ Prop(cur.msg, "html") = S("plain body")

\* C3: a send-email request that arrives when its source has already had
\* 100 requests counted in the window (the 101st or a later one) receives
\* the rate-limit message and is neither validated nor sent to the vendor.
C3_LaterRequestsGetRateLimitMessage ==
    (cur.route = "send-email" /\ cur.pc # "idle" /\ cur.seenHits >= Max)
    => /\ cur.res.body = S("Too many email requests, please try again later.")
       /\ cur.res.status # 400
       /\ cur.sendCalls = 0

\* C4: every webhook request is answered 200 with the text OK, whatever its
\* body and content type.
C4_WebhookAlwaysOK ==
    (cur.route = "webhook" /\ cur.pc = "done")
    => cur.res.status = 200 /\ cur.res.type = "text" /\ cur.res.body = S("OK")

\* C5: a send-email request that reaches the handler ends with exactly one
\* response sent by the handler and no exception leaving it, whatever the
\* vendor call does.
C5_NoExceptionEscapes ==
    (cur.route = "send-email" /\ cur.stage = "handler" /\ cur.pc = "done")
    => ~cur.escaped /\ cur.handlerResponses = 1 /\ cur.res.by = "handler"

Rejected == cur.route = "send-email" /\ cur.pc = "done" /\ cur.outcome.kind = "reject"
Resolved == cur.route = "send-email" /\ cur.pc = "done" /\ cur.outcome.kind = "resolve"
VendorStyleError ==
    /\ Rejected
    /\ ~IsMissing(Prop(cur.outcome.val, "response"))
    /\ CanRead(Prop(Prop(cur.outcome.val, "response"), "body"))
VendorErrorList == Prop(Prop(Prop(cur.outcome.val, "response"), "body"), "errors")
VendorStatus ==
    IF IsMissing(Prop(cur.outcome.val, "code")) THEN 500 ELSE Prop(cur.outcome.val, "code").n

\* C6 as stated: a vendor-style error (a response with a body) is answered
\* with the vendor's code, or 500, and details = the vendor's error list.
C6_DetailsAreErrorList ==
    VendorStyleError
    => Sent = [status |-> VendorStatus, type |-> "json",
               body |-> Obj(DropUndefined(<<M("error", S("SendGrid API error")),
                                            M("details", VendorErrorList)>>))]

\* C6 amended: a vendor-style error (a response with a body) is answered
\* with the vendor's code, or 500, and details = the vendor's error list
\* when the body carries one, else the error's message.
C6_DetailsAreErrorListOrMessage ==
    VendorStyleError
    => /\ cur.res.by = "handler"
       /\ Sent = JsonOf(VendorStatus,
                        <<M("error", S("SendGrid API error")),
                          M("details", IF IsMissing(VendorErrorList)
                                       THEN Prop(cur.outcome.val, "message")
                                       ELSE VendorErrorList)>>)

C6_Witness ==
    /\ VendorStyleError
    /\ cur.res.status = 401
    /\ VendorErrorList.t = "arr" /\ Len(VendorErrorList.items) = 1
    /\ Prop(cur.res.body, "details") = VendorErrorList

\* sgMail.send resolved with a value whose first element has headers
WellShaped(r) == CanRead(r) /\ CanRead(Index0(r)) /\ CanRead(Prop(Index0(r), "headers"))

\* an exception other than the vendor's was raised in the handler after
\* validation: reading the message id of a malformed result, or reading the
\* errors of a vendor error whose response has no body
NonVendorException ==
    \/ Resolved /\ ~WellShaped(cur.outcome.val)
    \/ Rejected /\ ~IsMissing(Prop(cur.outcome.val, "response"))
                /\ ~CanRead(Prop(Prop(cur.outcome.val, "response"), "body"))

\* C7: a plain error of the vendor call (no response) is answered 500
\* 'Server error' with details = the error's message, and so is any
\* non-vendor exception raised in the handler after validation.
C7_PlainErrorsGet500 ==
    /\ (Rejected /\ IsMissing(Prop(cur.outcome.val, "response")))
       => Sent = JsonOf(500, <<M("error", S("Server error")),
                               M("details", Prop(cur.outcome.val, "message"))>>)
    /\ NonVendorException
       => Sent = JsonOf(500, <<M("error", S("Server error")),
                               M("details", Prop(TypeError, "message"))>>)

\* C8: when the vendor call succeeds (with a result whose first element has
\* headers) the response is 200 {success, messageId, message} with
\* messageId the x-message-id header of the first element.
C8_SuccessCarriesMessageId ==
    (Resolved /\ WellShaped(cur.outcome.val))
    => /\ cur.res.by = "handler"
       /\ Sent = [status |-> 200, type |-> "json",
                  body |-> Obj(DropUndefined(
                      <<M("success", Bool(TRUE)),
                        M("messageId", Prop(Prop(Index0(cur.outcome.val), "headers"),
                                            "x-message-id")),
                        M("message", S("Email sent successfully"))>>))]

C8_Witness ==
    /\ Resolved
    /\ cur.res.status = 200
    /\ Prop(cur.res.body, "messageId") = S("msg-1")

\* C9: a health request is answered 200 {status: 'OK', message: 'Backend is
\* running'} in every state of the server, and the throttle does not count
\* it.
C9_HealthAlwaysOK ==
    (cur.route = "health" /\ cur.pc # "idle")
    => /\ cur.pc = "done"
       /\ Sent = JsonOf(200, <<M("status", S("OK")), M("message", S("Backend is running"))>>)
       /\ hits[cur.src] = cur.seenHits

C9_Witness ==
    /\ cur.route = "health" /\ cur.pc = "done"
    /\ hits[cur.src] > Max
    /\ cur.res.status = 200

\* C10: the vendor send is invoked at most once per send-email request and
\* never for a request answered with the 400 missing-fields response or with
\* the rate-limit rejection.
C10_NoSendForRejected ==
    /\ cur.sendCalls <= 1
    /\ (cur.route = "send-email"
        /\ \/ cur.res.body = S("Too many email requests, please try again later.")
           \/ cur.res.body = Obj(<<M("error", S("Missing required fields: to, subject, and text/html"))>>))
       => cur.sendCalls = 0 /\ cur.msg = Undefined

C10_Witness ==
    /\ cur.route = "send-email" /\ cur.pc = "done"
    /\ cur.res.status = 429
    /\ CanRead(cur.body) /\ ~BodyMissingRequired
    /\ cur.sendCalls = 0
====
